---- MODULE Spec2Model ----
(***************************************************************************)
(* Model of script.js, the interactive map widget: data load, marker       *)
(* registry, filter engine, sidebar list renderer and geolocation control. *)
(*                                                                         *)
(* Text is a sequence of one-character strings.  Rendered markup is a      *)
(* sequence of tokens: a literal chunk of a template is one token of       *)
(* several characters, an entity produced by escapeHtml is one token       *)
(* ("&lt;"), and a character copied from record data is a one-character    *)
(* token.  Coordinates are integers in units of 1e-4 degree.               *)
(***************************************************************************)
EXTENDS Integers, Sequences, FiniteSets, TLC

VARIABLES
    phase,          \* "fetching" | "ready" | "failed": position of the async DOMContentLoaded handler
    markers,        \* const markers = []: sequence of {loc, marker}
    markerGroup,    \* layers of markerGroup, as marker ids in layer order
    listItems,      \* children of #locationList: [html, marker] per <li>
    categoryOptions,\* <option> values appended to #categoryFilter
    searchValue,    \* searchInput.value
    categoryValue,  \* categoryFilter.value
    view,           \* the map view
    openPopup,      \* id of the marker whose popup is open, 0 if none
    geoAvailable,   \* navigator.geolocation is truthy
    btnDisabled,    \* locateBtn.disabled
    btnLabel,       \* locateBtn.textContent
    requests,       \* number of getCurrentPosition requests in flight
    userMarkers,    \* circle markers added to the map by the success callback
    timers,         \* pending 6000 ms timeouts, each holding its userMarker
    alertMsg,       \* text of the alert() shown by the handler that ran last, <<>> if it showed none
    focus,          \* document.activeElement: "body", "search" (#searchInput) or "textarea"
    keyPrevented,   \* the handler that ran last called e.preventDefault()
    bounce,         \* ids of the markers whose icon element has the class 'bounce'
    bounceTimers    \* pending 600 ms timeouts, oldest first, each holding its marker's icon

vars == <<phase, markers, markerGroup, listItems, categoryOptions, searchValue,
          categoryValue, view, openPopup, geoAvailable, btnDisabled, btnLabel,
          requests, userMarkers, timers, alertMsg, focus, keyPrevented,
          bounce, bounceTimers>>

filterVars == <<markerGroup, listItems, searchValue, categoryValue>>
NoAlert == <<>>
geoVars == <<btnDisabled, btnLabel, requests, userMarkers, timers>>
uiVars == <<focus, bounce, bounceTimers>>

-----------------------------------------------------------------------------
(* Bounds of the model *)

MaxRecords == 2
MaxQueryLen == 2
MaxBounceTimers == 1

-----------------------------------------------------------------------------
(* Text *)

Lower(c) ==
    CASE c = "A" -> "a"
      [] c = "B" -> "b"
      [] OTHER -> c

\* String.prototype.toLowerCase
toLowerCase(s) == [i \in 1..Len(s) |-> Lower(s[i])]

WhiteSpace == {" "}

RECURSIVE TrimStart(_)
TrimStart(s) ==
    IF s # <<>> /\ Head(s) \in WhiteSpace THEN TrimStart(Tail(s)) ELSE s

RECURSIVE TrimEnd(_)
TrimEnd(s) ==
    IF s # <<>> /\ s[Len(s)] \in WhiteSpace
    THEN TrimEnd(SubSeq(s, 1, Len(s) - 1))
    ELSE s

\* String.prototype.trim
trim(s) == TrimEnd(TrimStart(s))

\* String.prototype.includes
includes(hay, needle) ==
    \E i \in 0..(Len(hay) - Len(needle)) :
        SubSeq(hay, i + 1, i + Len(needle)) = needle

\* UTF-16 code unit order of the characters used, for Array.prototype.sort
Code(c) ==
    CASE c = " " -> 32
      [] c = "\"" -> 34
      [] c = "&" -> 38
      [] c = "'" -> 39
      [] c = "<" -> 60
      [] c = ">" -> 62
      [] c = "A" -> 65
      [] c = "B" -> 66
      [] c = "a" -> 97
      [] c = "b" -> 98
      [] c = "u" -> 117

RECURSIVE StrLess(_, _)
StrLess(s, t) ==
    IF t = <<>> THEN FALSE
    ELSE IF s = <<>> THEN TRUE
    ELSE IF Head(s) = Head(t) THEN StrLess(Tail(s), Tail(t))
    ELSE Code(Head(s)) < Code(Head(t))

-----------------------------------------------------------------------------
(* Escaping and markup *)

Special == {"&", "<", ">", "\"", "'"}

Entity(c) ==
    CASE c = "&" -> "&amp;"
      [] c = "<" -> "&lt;"
      [] c = ">" -> "&gt;"
      [] c = "\"" -> "&quot;"
      [] c = "'" -> "&#39;"

\* function escapeHtml(str)
escapeHtml(str) ==
    [i \in 1..Len(str) |-> IF str[i] \in Special THEN Entity(str[i]) ELSE str[i]]

\* `${loc.image}`: the image field as a template literal prints it
ImageText(loc) ==
    IF loc.hasImage THEN loc.image
    ELSE <<"u", "n", "d", "e", "f", "i", "n", "e", "d">>

\* loc.image ? ... : ''
ImageTruthy(loc) == loc.hasImage /\ loc.image # <<>>

\* function createPopupHTML(loc)
createPopupHTML(loc) ==
    <<"<div class=\"popup\"><h3>">> \o escapeHtml(loc.name)
    \o <<"</h3><small>">> \o escapeHtml(loc.category)
    \o <<"</small><p>">> \o escapeHtml(loc.description)
    \o <<"</p>">>
    \o (IF ImageTruthy(loc)
        THEN <<"<img src=\"">> \o ImageText(loc) \o <<"\" alt=\"">>
             \o escapeHtml(loc.name) \o <<"\">">>
        ELSE <<>>)
    \o <<"<p><a href=\"https://www.google.com/maps/search/?api=1&query=">>
    \o <<ToString(loc.lat), ",", ToString(loc.lng)>>
    \o <<"\" target=\"_blank\" rel=\"noopener\">Open in Google Maps</a></p></div>">>

\* li.innerHTML of renderList
ItemHTML(loc) ==
    <<"<img class=\"location-thumb\" src=\"">> \o ImageText(loc)
    \o <<"\" alt=\"">> \o escapeHtml(loc.name)
    \o <<"\" /><div><div class=\"location-title\">">> \o escapeHtml(loc.name)
    \o <<"</div><div class=\"location-cat\">">> \o escapeHtml(loc.category)
    \o <<"</div></div>">>

-----------------------------------------------------------------------------
(* Data: the records data/locations.json may hold *)

LocationPool ==
    { [name |-> <<"b">>, category |-> <<"b">>, description |-> <<>>,
       lat |-> 407000, lng |-> -740000, hasImage |-> FALSE, image |-> <<>>],
      [name |-> <<"<", "B">>, category |-> <<"B">>,
       description |-> <<"a", " ", "b", "&">>,
       lat |-> 407800, lng |-> -739700, hasImage |-> TRUE,
       image |-> <<"\"", ">">>],
      [name |-> <<"a">>, category |-> <<"B">>, description |-> <<"B", "b">>,
       lat |-> 407500, lng |-> -739900, hasImage |-> TRUE, image |-> <<"u">>] }

SeqsUpTo(S, n) == UNION { [1..k -> S] : k \in 0..n }

LocationLists == SeqsUpTo(LocationPool, MaxRecords)

QueryChars == {"B", " "}

Queries == SeqsUpTo(QueryChars, MaxQueryLen)

\* coordinates the position request may report
Positions == { <<407000, -740000>>, <<515000, -1200>> }

\* err.message of a failed position request
ErrorTexts == { <<"denied">>, <<"timeout">> }

-----------------------------------------------------------------------------
(* Marker registry *)

\* L.marker([loc.lat, loc.lng], {title}) with its bound popup; id is the
\* object's identity, the position of its record in the data
NewMarker(i, loc) ==
    [id |-> i, lat |-> loc.lat, lng |-> loc.lng, title |-> loc.name,
     popup |-> createPopupHTML(loc)]

\* the markers array after locations.forEach
BuildMarkers(locs) ==
    [i \in 1..Len(locs) |-> [loc |-> locs[i], marker |-> NewMarker(i, locs[i])]]

\* the layers added last to first
LayersOfReversed(items) ==
    [i \in 1..Len(items) |-> items[Len(items) + 1 - i].marker.id]

\* the layers markerGroup holds after adding the markers of items in order
LayersOf(items) == [i \in 1..Len(items) |-> items[i].marker.id]

SetMin(S) == CHOOSE x \in S : \A y \in S : x <= y
SetMax(S) == CHOOSE x \in S : \A y \in S : x >= y

PadPercent == 12

\* L.featureGroup(items.map(m=>m.marker)).getBounds().pad(0.12), in units of
\* 1e-6 degree
PaddedBounds(items) ==
    LET lats == { items[i].marker.lat : i \in 1..Len(items) }
        lngs == { items[i].marker.lng : i \in 1..Len(items) }
        s == SetMin(lats)
        n == SetMax(lats)
        w == SetMin(lngs)
        e == SetMax(lngs)
    IN  [south |-> 100 * s - PadPercent * (n - s),
         north |-> 100 * n + PadPercent * (n - s),
         west  |-> 100 * w - PadPercent * (e - w),
         east  |-> 100 * e + PadPercent * (e - w)]

\* map.setView([lat, lng], zoom)
SetView(lat, lng, zoom) == [kind |-> "center", lat |-> lat, lng |-> lng, zoom |-> zoom]

InitLat == 407831
InitLng == -739712
InitZoom == 12
ListZoom == 15
LocateZoom == 14

\* the view falls back to the initial one when there is nothing to fit
FitViewOrReset(items, v) ==
    IF Len(items) > 0
    THEN [kind |-> "bounds", bounds |-> PaddedBounds(items)]
    ELSE SetView(InitLat, InitLng, InitZoom)

\* if(items.length){ map.fitBounds(...) }: the view after the conditional fit
FitView(items, v) ==
    IF Len(items) > 0
    THEN [kind |-> "bounds", bounds |-> PaddedBounds(items)]
    ELSE v

\* Array.from(categorySet).sort()
RECURSIVE SortSet(_)
SortSet(S) ==
    IF S = {} THEN <<>>
    ELSE LET least == CHOOSE x \in S : \A y \in S \ {x} : StrLess(x, y)
         IN  <<least>> \o SortSet(S \ {least})

\* the categories in the order the set received them, not sorted
CategoryOptionsInsertionOrder(locs) ==
    LET First(i) == \A j \in 1..(i - 1) : locs[j].category # locs[i].category
        firsts == SelectSeq([i \in 1..Len(locs) |-> i], First)
    IN  [k \in 1..Len(firsts) |-> locs[firsts[k]].category]

\* categorySet filled by locations.forEach, then Array.from(categorySet).sort()
CategoryOptionsOf(locs) == SortSet({ locs[i].category : i \in 1..Len(locs) })

\* the list rendered from the whole markers array
renderListAll(items) ==
    [i \in 1..Len(markers) |->
        [html |-> ItemHTML(markers[i].loc), marker |-> markers[i].marker.id]]

\* each <li> closing over the marker whose identity is the <li>'s own
\* index, the marker of the record at that position of the data
renderListByPosition(items) ==
    [i \in 1..Len(items) |-> [html |-> ItemHTML(items[i].loc), marker |-> i]]

\* function renderList(items): the <li> elements, each with the marker its
\* click handler closes over
renderList(items) ==
    [i \in 1..Len(items) |->
        [html |-> ItemHTML(items[i].loc), marker |-> items[i].marker.id]]

-----------------------------------------------------------------------------
(* Filter engine *)

\* const q = searchInput.value.trim().toLowerCase()
QueryOf(sv) == toLowerCase(trim(sv))

\* the three fields joined without the separating spaces
HaystackJoined(loc) ==
    toLowerCase(loc.name \o loc.category \o loc.description)

\* the text a record is searched in
Haystack(loc) ==
    toLowerCase(loc.name \o <<" ">> \o loc.category \o <<" ">> \o loc.description)

matchesQ(q, loc) == q = <<>> \/ includes(Haystack(loc), q)

\* the category compared without regard to case
matchesCatIgnoreCase(cat, loc) ==
    cat = <<>> \/ toLowerCase(loc.category) = toLowerCase(cat)

matchesCat(cat, loc) == cat = <<>> \/ loc.category = cat

\* markers.filter(...) of applyFilters
Filtered(sv, cv, ms) ==
    LET q == QueryOf(sv)
        Pass(m) == matchesQ(q, m.loc) /\ matchesCat(cv, m.loc)
    IN  SelectSeq(ms, Pass)

\* the entries of markers whose marker is in the layer group now
FilterBaseDisplayed ==
    LET Shown(m) == \E i \in 1..Len(markerGroup) : markerGroup[i] = m.marker.id
    IN  SelectSeq(markers, Shown)

\* the array applyFilters filters
FilterBase == markers

\* function applyFilters(), run with the values the two controls hold
applyFilters(sv, cv) ==
    \E filtered \in {Filtered(sv, cv, FilterBase)} :   \* const filtered, computed once
        /\ markerGroup' = LayersOf(filtered)
        /\ listItems' = renderList(filtered)
        /\ view' = FitView(filtered, view)
        /\ openPopup' = 0   \* clearLayers removes every marker; a removed marker's popup closes
        /\ bounce' = {}     \* and its icon element is discarded: a re-added marker gets a new one,
        /\ bounceTimers' = <<>>   \* so the pending timeouts hold elements no longer on the map

-----------------------------------------------------------------------------
(* Geolocation control *)

IdleLabel == <<"My location">>
LocatingLabel == <<"Locating...">>

UnsupportedText == <<"Geolocation not supported by this browser.">>

\* the alert text without the error's message
ErrorAlertGeneric(msg) == <<"Could not get location: ">>

\* 'Could not get location: ' + err.message
ErrorAlert(msg) == <<"Could not get location: ">> \o msg

\* the sequence s without its element at position i
RemoveAt(s, i) == SubSeq(s, 1, i - 1) \o SubSeq(s, i + 1, Len(s))

\* the layer is left on the map
removeLayerKept(layers, m) == layers

\* map.removeLayer(userMarker): the layers left on the map
removeLayer(layers, m) ==
    IF \E i \in 1..Len(layers) : layers[i] = m
    THEN RemoveAt(layers, CHOOSE i \in 1..Len(layers) : layers[i] = m)
    ELSE layers

-----------------------------------------------------------------------------
(* Initial state: the map is created and centred, the fetch is awaited *)

Init ==
    /\ phase = "fetching"
    /\ markers = <<>>
    /\ markerGroup = <<>>
    /\ listItems = <<>>
    /\ categoryOptions = <<>>
    /\ searchValue = <<>>
    /\ categoryValue = <<>>
    /\ view = SetView(InitLat, InitLng, InitZoom)
    /\ openPopup = 0
    /\ geoAvailable \in BOOLEAN
    /\ btnDisabled = FALSE
    /\ btnLabel = IdleLabel
    /\ requests = 0
    /\ userMarkers = <<>>
    /\ timers = <<>>
    /\ alertMsg = NoAlert
    /\ focus = "body"
    /\ keyPrevented = FALSE
    /\ bounce = {}
    /\ bounceTimers = <<>>

-----------------------------------------------------------------------------
(* Operations *)

\* the fetch and the JSON parse succeed: the rest of the DOMContentLoaded
\* handler runs to its end
FetchResolve ==
    /\ phase = "fetching"
    /\ \E locations \in LocationLists :
        LET ms == BuildMarkers(locations)
        IN  /\ markers' = ms
            /\ markerGroup' = LayersOf(ms)
            /\ view' = FitView(ms, view)
            /\ categoryOptions' = CategoryOptionsOf(locations)
            /\ listItems' = renderList(ms)
    /\ phase' = "ready"
    /\ UNCHANGED <<searchValue, categoryValue, openPopup, geoAvailable>>
    /\ UNCHANGED geoVars
    /\ alertMsg' = NoAlert
    /\ UNCHANGED uiVars
    /\ keyPrevented' = FALSE

\* the fetch or the JSON parse rejects: the handler ends at the await
FetchReject ==
    /\ phase = "fetching"
    /\ phase' = "failed"
    /\ UNCHANGED <<markers, markerGroup, listItems, categoryOptions, searchValue,
                   categoryValue, view, openPopup, geoAvailable>>
    /\ UNCHANGED geoVars
    /\ alertMsg' = NoAlert
    /\ UNCHANGED uiVars
    /\ keyPrevented' = FALSE

\* 'input' on #searchInput: the field holds v when the handler runs
SearchInput ==
    /\ phase = "ready"
    /\ \E v \in Queries :
        /\ searchValue' = v
        /\ applyFilters(v, categoryValue)
    /\ UNCHANGED <<phase, markers, categoryOptions, categoryValue, geoAvailable>>
    /\ UNCHANGED geoVars
    /\ alertMsg' = NoAlert
    /\ UNCHANGED focus
    /\ keyPrevented' = FALSE

\* the change handler keeping in markers only the entries that pass
CategoryChangePruning ==
    /\ phase = "ready"
    /\ \E c \in {<<>>} \cup { categoryOptions[i] : i \in 1..Len(categoryOptions) } :
        /\ categoryValue' = c
        /\ applyFilters(searchValue, c)
        /\ markers' = Filtered(searchValue, c, markers)
    /\ UNCHANGED <<phase, categoryOptions, searchValue, geoAvailable>>
    /\ UNCHANGED geoVars
    /\ alertMsg' = NoAlert
    /\ UNCHANGED focus
    /\ keyPrevented' = FALSE

\* 'change' on #categoryFilter: the select holds the empty value or one of
\* its options
CategoryChange ==
    /\ phase = "ready"
    /\ \E c \in {<<>>} \cup { categoryOptions[i] : i \in 1..Len(categoryOptions) } :
        /\ categoryValue' = c
        /\ applyFilters(searchValue, c)
    /\ UNCHANGED <<phase, markers, categoryOptions, searchValue, geoAvailable>>
    /\ UNCHANGED geoVars
    /\ alertMsg' = NoAlert
    /\ UNCHANGED focus
    /\ keyPrevented' = FALSE

\* the marker object with identity id
MarkerById(id) == markers[id].marker

\* 'click' on the i-th <li> of the sidebar
ListClickAt(i) ==
    /\ phase = "ready"
    /\ i \in 1..Len(listItems)
    /\ LET m == MarkerById(listItems[i].marker)
       IN  /\ openPopup' = m.id
           /\ view' = SetView(m.lat, m.lng, ListZoom)
    /\ UNCHANGED <<phase, markers, categoryOptions, geoAvailable>>
    /\ UNCHANGED filterVars
    /\ UNCHANGED geoVars
    /\ alertMsg' = NoAlert
    /\ UNCHANGED uiVars
    /\ keyPrevented' = FALSE

ListClick == \E i \in 1..Len(listItems) : ListClickAt(i)

\* the click handler without the test of navigator.geolocation
LocateClickUnchecked ==
    /\ phase = "ready"
    /\ ~btnDisabled
    /\ btnDisabled' = TRUE
    /\ btnLabel' = LocatingLabel
    /\ requests' = requests + 1
    /\ alertMsg' = NoAlert
    /\ UNCHANGED <<userMarkers, timers>>
    /\ UNCHANGED <<phase, markers, categoryOptions, view, openPopup, geoAvailable>>
    /\ UNCHANGED filterVars
    /\ UNCHANGED uiVars
    /\ keyPrevented' = FALSE

\* the click handler that leaves the button enabled
LocateClickNoDisable ==
    /\ phase = "ready"
    /\ ~btnDisabled
    /\ IF ~geoAvailable
       THEN /\ alertMsg' = UnsupportedText
            /\ UNCHANGED geoVars
       ELSE /\ btnLabel' = LocatingLabel
            /\ requests' = requests + 1
            /\ alertMsg' = NoAlert
            /\ UNCHANGED <<btnDisabled, userMarkers, timers>>
    /\ UNCHANGED <<phase, markers, categoryOptions, view, openPopup, geoAvailable>>
    /\ UNCHANGED filterVars
    /\ UNCHANGED uiVars
    /\ keyPrevented' = FALSE

\* 'click' on #locateBtn; a disabled button dispatches no click
LocateClick ==
    /\ phase = "ready"
    /\ ~btnDisabled
    /\ IF ~geoAvailable
       THEN /\ alertMsg' = UnsupportedText
            /\ UNCHANGED geoVars
       ELSE /\ btnDisabled' = TRUE
            /\ btnLabel' = LocatingLabel
            /\ requests' = requests + 1
            /\ alertMsg' = NoAlert
            /\ UNCHANGED <<userMarkers, timers>>
    /\ UNCHANGED <<phase, markers, categoryOptions, view, openPopup, geoAvailable>>
    /\ UNCHANGED filterVars
    /\ UNCHANGED uiVars
    /\ keyPrevented' = FALSE

\* the success callback adding the circle marker to markerGroup (layer 0)
GeoSuccessAtIntoGroup(pos) ==
    /\ requests > 0
    /\ LET userMarker == [lat |-> pos[1], lng |-> pos[2]]
       IN  /\ view' = SetView(pos[1], pos[2], LocateZoom)
           /\ userMarkers' = Append(userMarkers, userMarker)
           /\ timers' = Append(timers, userMarker)
    /\ markerGroup' = Append(markerGroup, 0)
    /\ requests' = requests - 1
    /\ UNCHANGED <<phase, markers, categoryOptions, openPopup, geoAvailable,
                   btnDisabled, btnLabel>>
    /\ UNCHANGED <<listItems, searchValue, categoryValue>>
    /\ alertMsg' = NoAlert
    /\ UNCHANGED uiVars
    /\ keyPrevented' = FALSE

\* success callback of getCurrentPosition, called with pos.coords = pos
GeoSuccessAt(pos) ==
    /\ requests > 0
    /\ LET userMarker == [lat |-> pos[1], lng |-> pos[2]]
       IN  /\ view' = SetView(pos[1], pos[2], LocateZoom)
           /\ userMarkers' = Append(userMarkers, userMarker)
           /\ timers' = Append(timers, userMarker)
    /\ requests' = requests - 1
    /\ UNCHANGED <<phase, markers, categoryOptions, openPopup, geoAvailable,
                   btnDisabled, btnLabel>>
    /\ UNCHANGED filterVars
    /\ alertMsg' = NoAlert
    /\ UNCHANGED uiVars
    /\ keyPrevented' = FALSE

GeoSuccess == \E pos \in Positions : GeoSuccessAt(pos)

\* error callback of getCurrentPosition, called with err.message = msg
GeoErrorWith(msg) ==
    /\ requests > 0
    /\ alertMsg' = ErrorAlert(msg)
    /\ btnDisabled' = FALSE
    /\ btnLabel' = IdleLabel
    /\ requests' = requests - 1
    /\ UNCHANGED <<phase, markers, categoryOptions, view, openPopup, geoAvailable,
                   userMarkers, timers>>
    /\ UNCHANGED filterVars
    /\ UNCHANGED uiVars
    /\ keyPrevented' = FALSE

GeoError == \E msg \in ErrorTexts : GeoErrorWith(msg)

\* the timeout callback that only removes the marker
TimerFireRemoveOnly ==
    /\ \E i \in 1..Len(timers) :
        /\ userMarkers' = removeLayer(userMarkers, timers[i])
        /\ timers' = RemoveAt(timers, i)
    /\ UNCHANGED <<btnDisabled, btnLabel>>
    /\ UNCHANGED <<phase, markers, categoryOptions, view, openPopup, geoAvailable,
                   requests>>
    /\ UNCHANGED filterVars
    /\ alertMsg' = NoAlert
    /\ UNCHANGED uiVars
    /\ keyPrevented' = FALSE

\* the 6000 ms timeout set by the success callback fires
TimerFire ==
    /\ \E i \in 1..Len(timers) :
        /\ userMarkers' = removeLayer(userMarkers, timers[i])
        /\ timers' = RemoveAt(timers, i)
    /\ btnDisabled' = FALSE
    /\ btnLabel' = IdleLabel
    /\ UNCHANGED <<phase, markers, categoryOptions, view, openPopup, geoAvailable,
                   requests>>
    /\ UNCHANGED filterVars
    /\ alertMsg' = NoAlert
    /\ UNCHANGED uiVars
    /\ keyPrevented' = FALSE

\* the elements that can hold the focus
FocusTargets == {"body", "search", "textarea"}

\* document.activeElement.tagName
TagName(el) ==
    CASE el = "search" -> "INPUT"
      [] el = "textarea" -> "TEXTAREA"
      [] OTHER -> "BODY"

Keys == {"/", "a"}

\* the user moves the focus to another element
FocusMove ==
    /\ \E el \in FocusTargets \ {focus} : focus' = el
    /\ keyPrevented' = FALSE
    /\ alertMsg' = NoAlert
    /\ UNCHANGED <<phase, markers, categoryOptions, view, openPopup, geoAvailable,
                   bounce, bounceTimers>>
    /\ UNCHANGED filterVars
    /\ UNCHANGED geoVars

\* the keydown listener without the test for TEXTAREA
KeyDownOnInputOnly(key) ==
    /\ phase = "ready"
    /\ IF key = "/" /\ TagName(focus) # "INPUT"
       THEN /\ keyPrevented' = TRUE
            /\ focus' = "search"
       ELSE /\ keyPrevented' = FALSE
            /\ UNCHANGED focus
    /\ alertMsg' = NoAlert
    /\ UNCHANGED <<phase, markers, categoryOptions, view, openPopup, geoAvailable,
                   bounce, bounceTimers>>
    /\ UNCHANGED filterVars
    /\ UNCHANGED geoVars

\* the keydown listener added before the fetch is awaited
KeyDownOnEarly(key) ==
    /\ IF key = "/" /\ TagName(focus) # "INPUT" /\ TagName(focus) # "TEXTAREA"
       THEN /\ keyPrevented' = TRUE
            /\ focus' = "search"
       ELSE /\ keyPrevented' = FALSE
            /\ UNCHANGED focus
    /\ alertMsg' = NoAlert
    /\ UNCHANGED <<phase, markers, categoryOptions, view, openPopup, geoAvailable,
                   bounce, bounceTimers>>
    /\ UNCHANGED filterVars
    /\ UNCHANGED geoVars

\* 'keydown' on window with e.key = key
KeyDownOn(key) ==
    /\ phase = "ready"
    /\ IF key = "/" /\ TagName(focus) # "INPUT" /\ TagName(focus) # "TEXTAREA"
       THEN /\ keyPrevented' = TRUE
            /\ focus' = "search"
       ELSE /\ keyPrevented' = FALSE
            /\ UNCHANGED focus
    /\ alertMsg' = NoAlert
    /\ UNCHANGED <<phase, markers, categoryOptions, view, openPopup, geoAvailable,
                   bounce, bounceTimers>>
    /\ UNCHANGED filterVars
    /\ UNCHANGED geoVars

KeyDown == \E key \in Keys : KeyDownOn(key)

\* 'click' on the marker with identity id, which is on the map: the bound
\* popup toggles and the handler of marker.on('click') starts the bounce
MarkerClickOn(id) ==
    /\ phase = "ready"
    /\ \E i \in 1..Len(markerGroup) : markerGroup[i] = id
    /\ Len(bounceTimers) < MaxBounceTimers
    /\ openPopup' = IF openPopup = id THEN 0 ELSE id
    /\ bounce' = bounce \cup {id}
    /\ bounceTimers' = Append(bounceTimers, id)
    /\ keyPrevented' = FALSE
    /\ alertMsg' = NoAlert
    /\ UNCHANGED <<phase, markers, categoryOptions, view, geoAvailable, focus>>
    /\ UNCHANGED filterVars
    /\ UNCHANGED geoVars

MarkerClick == \E id \in 1..Len(markers) : MarkerClickOn(id)

\* the oldest 600 ms timeout fires: el.classList.remove('bounce')
BounceTimerFire ==
    /\ bounceTimers # <<>>
    /\ bounce' = bounce \ {Head(bounceTimers)}
    /\ bounceTimers' = Tail(bounceTimers)
    /\ keyPrevented' = FALSE
    /\ alertMsg' = NoAlert
    /\ UNCHANGED <<phase, markers, categoryOptions, view, openPopup, geoAvailable, focus>>
    /\ UNCHANGED filterVars
    /\ UNCHANGED geoVars

Next ==
    \/ FetchResolve
    \/ FetchReject
    \/ SearchInput
    \/ CategoryChange
    \/ ListClick
    \/ LocateClick
    \/ GeoSuccess
    \/ GeoError
    \/ TimerFire

Spec == Init /\ [][Next]_vars

\* every event of the page: those of Next, the keyboard, the focus and the
\* clicks on markers
NextAll ==
    \/ Next
    \/ FocusMove
    \/ KeyDown
    \/ MarkerClick
    \/ BounceTimerFire

SpecAll == Init /\ [][NextAll]_vars

\* the platform calls one callback of every position request and runs
\* every timeout
SpecFair ==
    /\ Init
    /\ [][Next]_vars
    /\ WF_vars(GeoSuccess \/ GeoError)
    /\ WF_vars(TimerFire)

-----------------------------------------------------------------------------
(* Properties *)

Ready == phase = "ready"

\* ids of all markers, in source order
AllIds == [i \in 1..Len(markers) |-> i]

\* the record shown by the i-th layer of the layer group
ShownLoc(i) == markers[markerGroup[i]].loc

\* the marker ids of the records of the data that satisfy P, in source order
IdsWhere(P(_)) ==
    LET Keep(i) == P(markers[i].loc) IN SelectSeq(AllIds, Keep)

\* C1: once the data has loaded, the layer group and the sidebar list show
\* the same markers, one list entry per layer and in the same order, and
\* that sequence is a sub-sequence of the loaded records (ids strictly
\* increasing), each list entry rendering the record of its marker.
C1_SameSubsequence ==
    Ready =>
        /\ Len(listItems) = Len(markerGroup)
        /\ \A i \in 1..Len(markerGroup) :
            /\ markerGroup[i] \in 1..Len(markers)
            /\ listItems[i].marker = markerGroup[i]
            /\ listItems[i].html = ItemHTML(ShownLoc(i))
        /\ \A i, j \in 1..Len(markerGroup) :
            i < j => markerGroup[i] < markerGroup[j]

\* a proper sub-sequence of two or more records is displayed while a
\* temporary location marker is on the map
C1_Witness ==
    /\ Ready
    /\ Len(markers) = MaxRecords
    /\ Len(markerGroup) >= 1
    /\ Len(markerGroup) < Len(markers)
    /\ markerGroup[1] > 1
    /\ userMarkers # <<>>

\* C2: after every event the number of list entries and the number of
\* layers both equal the size of the filter engine's output for the values
\* the two controls hold, whatever was displayed before.
C2_CountsMatchFilter ==
    Ready =>
        LET out == Filtered(searchValue, categoryValue, markers)
        IN  /\ Len(listItems) = Len(out)
            /\ Len(markerGroup) = Len(out)

\* both controls hold a value and the display is narrowed to part of the data
C2_Witness ==
    /\ Ready
    /\ searchValue # <<>>
    /\ categoryValue # <<>>
    /\ Len(markerGroup) = 1
    /\ Len(markers) = MaxRecords

\* C3 as stated: with the category selector empty and a non-empty query q,
\* the displayed records are exactly those for which lowercase(q) is a
\* substring of the lowercased concatenation name+category+description.
C3_AsStated ==
    (Ready /\ categoryValue = <<>> /\ searchValue # <<>>) =>
        LET Match(loc) ==
                includes(toLowerCase(loc.name \o loc.category \o loc.description),
                         toLowerCase(searchValue))
        IN  markerGroup = IdsWhere(Match)

\* C3 amended: with the category selector empty, the query is trimmed and
\* lowercased; if the result is empty every record is displayed, otherwise
\* exactly the records for which it is a substring of the lowercased text
\* name + " " + category + " " + description.
C3_TrimmedSpaced ==
    (Ready /\ categoryValue = <<>>) =>
        LET q == toLowerCase(trim(searchValue))
            Match(loc) ==
                includes(toLowerCase(loc.name \o <<" ">> \o loc.category
                                     \o <<" ">> \o loc.description), q)
        IN  IF q = <<>> THEN markerGroup = AllIds
            ELSE markerGroup = IdsWhere(Match)

\* a query with surrounding whitespace that spans no field boundary keeps
\* one record and drops one whose joined fields would contain it
C3_Witness ==
    /\ Ready
    /\ categoryValue = <<>>
    /\ trim(searchValue) # <<>>
    /\ Len(trim(searchValue)) >= 2
    /\ Len(markerGroup) >= 1
    /\ \E i \in 1..Len(markers) :
        /\ \A k \in 1..Len(markerGroup) : markerGroup[k] # i
        /\ LET loc == markers[i].loc
           IN  includes(toLowerCase(loc.name \o loc.category \o loc.description),
                        toLowerCase(trim(searchValue)))

\* C4: with a non-empty category value c only records whose category is
\* exactly c (compared case-sensitively) are displayed, and when the query
\* is empty every such record is displayed, in source order.
C4_CategoryExact ==
    (Ready /\ categoryValue # <<>>) =>
        LET Same(loc) == loc.category = categoryValue
        IN  /\ \A i \in 1..Len(markerGroup) : ShownLoc(i).category = categoryValue
            /\ searchValue = <<>> => markerGroup = IdsWhere(Same)

\* a category is selected, the query is empty, and the data holds a record
\* whose category differs from the selected one only by case
C4_Witness ==
    /\ Ready
    /\ categoryValue # <<>>
    /\ searchValue = <<>>
    /\ Len(markerGroup) >= 1
    /\ \E i \in 1..Len(markers) :
        /\ markers[i].loc.category # categoryValue
        /\ toLowerCase(markers[i].loc.category) = toLowerCase(categoryValue)

\* C5: with an empty query and an empty category every record is displayed
\* in source order, in the layer group and in the list; in particular the
\* event that clears the controls of a narrowed display restores all of it.
C5_ClearedShowsAll ==
    /\ [](Ready /\ searchValue = <<>> /\ categoryValue = <<>>
            => markerGroup = AllIds /\ listItems = renderList(markers))
    /\ [][(Ready /\ Len(markerGroup) < Len(markers)
            /\ searchValue' = <<>> /\ categoryValue' = <<>>)
            => (markerGroup' = AllIds /\ listItems' = renderList(markers))]_vars

\* both controls are empty and all of a data set of MaxRecords records is
\* displayed
C5_Witness ==
    /\ Ready
    /\ searchValue = <<>>
    /\ categoryValue = <<>>
    /\ Len(markers) = MaxRecords
    /\ markerGroup = AllIds
    /\ Len(listItems) = MaxRecords

\* C6: the success callback centres the view on the reported position at
\* zoom 14 and puts a temporary marker there; while a temporary marker is
\* on the map the button is disabled with label "Locating..." and the
\* removal timer is pending; the marker leaves the map only when the timer
\* fires, and the firing leaves no temporary marker and the button enabled
\* with its Idle label.
C6_SuccessThenTimer ==
    /\ [](userMarkers # <<>> =>
            btnDisabled /\ btnLabel = LocatingLabel /\ timers # <<>>)
    /\ [][\A pos \in Positions : GeoSuccessAt(pos) =>
            /\ view' = [kind |-> "center", lat |-> pos[1], lng |-> pos[2], zoom |-> 14]
            /\ \E i \in 1..Len(userMarkers') :
                userMarkers'[i].lat = pos[1] /\ userMarkers'[i].lng = pos[2]
            /\ btnDisabled' /\ btnLabel' = LocatingLabel]_vars
    /\ [][Len(userMarkers') < Len(userMarkers) => Len(timers') < Len(timers)]_vars
    /\ [][Len(timers') < Len(timers) =>
            userMarkers' = <<>> /\ ~btnDisabled' /\ btnLabel' = IdleLabel]_vars

\* the temporary marker is on the map at the reported position, the view
\* is centred there at zoom 14 and the button is still disabled
C6_Witness ==
    /\ userMarkers # <<>>
    /\ view = [kind |-> "center", lat |-> userMarkers[1].lat,
               lng |-> userMarkers[1].lng, zoom |-> 14]
    /\ btnDisabled
    /\ Len(markerGroup) >= 1

\* C7: the error callback leaves the button enabled with its Idle label,
\* shows an alert containing the error's message, leaves the view as it
\* was, and adds no temporary marker; none is on the map, and no timer is
\* pending, at any time while the request is in flight.
C7_FailureToIdle ==
    /\ [](requests > 0 => userMarkers = <<>> /\ timers = <<>>)
    /\ [][\A msg \in ErrorTexts : GeoErrorWith(msg) =>
            /\ ~btnDisabled' /\ btnLabel' = IdleLabel
            /\ includes(alertMsg', msg)
            /\ view' = view
            /\ userMarkers' = <<>> /\ timers' = <<>>
            /\ requests' = 0]_vars

\* the error alert with the message "denied" has just been shown and the
\* control is Idle with no temporary marker
C7_Witness ==
    /\ includes(alertMsg, <<"denied">>)
    /\ ~btnDisabled
    /\ btnLabel = IdleLabel
    /\ userMarkers = <<>>
    /\ view.kind = "bounds"

\* C8: where the geolocation capability is unavailable a locate click
\* shows the notification and changes nothing of the control: the button
\* is never disabled, its label never changes, no request is issued and no
\* timer or temporary marker exists.
C8_UnavailableStaysIdle ==
    /\ [](~geoAvailable =>
            /\ ~btnDisabled /\ btnLabel = IdleLabel
            /\ requests = 0 /\ timers = <<>> /\ userMarkers = <<>>)
    /\ [][(LocateClick /\ ~geoAvailable) => alertMsg' = UnsupportedText]_vars

\* the notification of the missing capability has just been shown and the
\* control is Idle
C8_Witness ==
    /\ ~geoAvailable
    /\ alertMsg = UnsupportedText
    /\ ~btnDisabled
    /\ requests = 0

\* a one-character token of the markup that is a markup character: it was
\* copied from record data without escaping
Unescaped(html) == \E i \in 1..Len(html) : html[i] \in {"&", "<", ">", "\"", "'"}

\* C9: no popup content and no sidebar list entry holds an unescaped markup
\* character that comes from record data.
C9_AllFieldsEscaped ==
    /\ \A i \in 1..Len(markers) : ~Unescaped(markers[i].marker.popup)
    /\ \A i \in 1..Len(listItems) : ~Unescaped(listItems[i].html)

\* C10: a search-input or category-change event whose result is empty
\* empties the layer group and the list and leaves the view as it was,
\* and a load of an empty record list leaves the initial view.
C10_EmptyKeepsView ==
    /\ [][(Ready /\ markerGroup' = <<>> /\ (SearchInput \/ CategoryChange)) =>
            listItems' = <<>> /\ view' = view]_vars
    /\ [][(~Ready /\ markers' = <<>> /\ FetchResolve) =>
            markerGroup' = <<>> /\ listItems' = <<>> /\ view' = view]_vars

\* the data is not empty, a filter has emptied the display, and the view
\* is still the one an earlier list click set
C10_Witness ==
    /\ Ready
    /\ markers # <<>>
    /\ markerGroup = <<>>
    /\ listItems = <<>>
    /\ view.kind = "center"
    /\ view.zoom = ListZoom

\* everything the handlers of the page can change, the focus apart
handlerVars ==
    <<markers, markerGroup, listItems, categoryOptions, searchValue, categoryValue,
      view, openPopup, btnDisabled, btnLabel, requests, userMarkers, timers,
      alertMsg, keyPrevented, bounce, bounceTimers>>

\* C11: the fetch is attempted once and its outcome is final; before it
\* resolves and after it fails there is no marker, no layer, no list entry
\* and no category option, and no handler runs: the only steps are the
\* outcome of the fetch and the user moving the focus.
C11_AllOrNothing ==
    /\ [](~Ready =>
            /\ markers = <<>> /\ markerGroup = <<>>
            /\ listItems = <<>> /\ categoryOptions = <<>>)
    /\ [][phase' # phase => phase = "fetching"]_vars
    /\ [][(~Ready /\ phase' = phase) => UNCHANGED handlerVars]_vars

\* the fetch has failed and the user has since moved the focus and pressed
\* keys: nothing was created
C11_Witness ==
    /\ phase = "failed"
    /\ focus = "textarea"
    /\ markers = <<>>
    /\ listItems = <<>>

\* C12: the keydown handler, given "/", moves the focus to the search
\* field and prevents the default when the focus is in no text input or
\* textarea, and otherwise leaves the focus and the key's default alone;
\* whatever the key, it changes neither the query and category values, nor
\* the displayed subset, nor the view, nor the geolocation control.
C12_SlashFocusesSearch ==
    [][\A key \in Keys : KeyDownOn(key) =>
        /\ (key = "/" /\ focus \notin {"search", "textarea"})
                => (focus' = "search" /\ keyPrevented')
        /\ (key = "/" /\ focus \in {"search", "textarea"})
                => (focus' = focus /\ ~keyPrevented')
        /\ key # "/" => (focus' = focus /\ ~keyPrevented')
        /\ UNCHANGED <<searchValue, categoryValue, markerGroup, listItems, markers,
                       view, openPopup, btnDisabled, btnLabel, requests,
                       userMarkers, timers>>]_vars

\* the shortcut has just moved the focus to the search field while a query
\* narrows the display and a position request is in flight
C12_Witness ==
    /\ keyPrevented
    /\ focus = "search"
    /\ searchValue # <<>>
    /\ Len(markerGroup) < Len(markers)
    /\ requests = 1

Idle == ~btnDisabled /\ btnLabel = IdleLabel
Locating == btnDisabled /\ btnLabel = LocatingLabel

\* C13: the control is always Idle or Locating, it leaves Idle only for
\* Locating and Locating only for Idle, and, the platform calling one
\* callback per request and running the timeouts, every Locating state is
\* followed by an Idle one.
C13_LocatingLeadsToIdle ==
    /\ [](Idle \/ Locating)
    /\ Locating ~> Idle

\* the control is Locating in the window after a success, the removal
\* timer pending
C13_Witness ==
    /\ Locating
    /\ requests = 0
    /\ timers # <<>>

\* C14: at any time at most one position request is in flight, at most
\* one removal timer is pending and at most one temporary marker is on the
\* map, the three together numbering one exactly while the button is
\* disabled and none while it is enabled; no click is handled while the
\* button is disabled; each temporary marker has its one pending removal,
\* and a removal takes one marker and one timer away.
C14_AtMostOneInFlight ==
    /\ [](/\ requests + Len(timers) <= 1
          /\ Len(userMarkers) = Len(timers)
          /\ btnDisabled <=> (requests + Len(timers) = 1))
    /\ [][btnDisabled => ~LocateClick]_vars
    /\ [][(Len(userMarkers') < Len(userMarkers) \/ Len(timers') < Len(timers)) =>
            /\ Len(userMarkers') = Len(userMarkers) - 1
            /\ Len(timers') = Len(timers) - 1]_vars

\* one temporary marker is on the map with its removal pending, no request
\* in flight, and the button is disabled
C14_Witness ==
    /\ Len(userMarkers) = 1
    /\ Len(timers) = 1
    /\ requests = 0
    /\ btnDisabled

\* C15: a search-input or category-change event leaves the button, the
\* request, the timer and the temporary marker as they were (no step that
\* changes one of them is such an event), and while the control is
\* Locating the display is still the filter's output for the values of the
\* two controls; the locate click, the two callbacks and the removal timer
\* leave the layer group, the list and the two values as they were.
C15_PathsIndependent ==
    /\ [][(Ready /\ geoVars' # geoVars) => ~(SearchInput \/ CategoryChange)]_vars
    /\ [][(LocateClick \/ GeoSuccess \/ GeoError \/ TimerFire) =>
            UNCHANGED <<markerGroup, listItems, searchValue, categoryValue>>]_vars
    /\ [](btnDisabled =>
            LET out == Filtered(searchValue, categoryValue, markers)
            IN  /\ Len(markerGroup) = Len(out)
                /\ \A i \in 1..Len(out) : markerGroup[i] = out[i].marker.id)

\* while the temporary marker is on the map and the button disabled, a
\* category and a query narrow the display
C15_Witness ==
    /\ btnDisabled
    /\ userMarkers # <<>>
    /\ timers # <<>>
    /\ categoryValue # <<>>
    /\ searchValue # <<>>
    /\ Len(markerGroup) < Len(markers)

\* C16: after a successful load the markers array holds one entry per
\* record, the i-th entry pairing the i-th record with the marker built
\* from it (position, title, popup); no step of any handler (filter, list
\* click, marker click, geolocation, timer, keyboard) changes the array;
\* and the layer group and the list entries only ever hold markers of the
\* array, each at most once.
C16_RegistryFixed ==
    /\ [](Ready => \A i \in 1..Len(markers) :
            /\ markers[i].marker.id = i
            /\ markers[i].marker.lat = markers[i].loc.lat
            /\ markers[i].marker.lng = markers[i].loc.lng
            /\ markers[i].marker.title = markers[i].loc.name
            /\ markers[i].marker.popup = createPopupHTML(markers[i].loc))
    /\ [][Ready => markers' = markers]_vars
    /\ [](/\ \A i \in 1..Len(markerGroup) : markerGroup[i] \in 1..Len(markers)
          /\ \A i, j \in 1..Len(markerGroup) : markerGroup[i] = markerGroup[j] => i = j
          /\ \A i \in 1..Len(listItems) : listItems[i].marker = markerGroup[i])

\* two records were loaded; since then a filter hid one, the shown marker
\* was clicked and a position was received
C16_Witness ==
    /\ Ready
    /\ Len(markers) = 2
    /\ Len(markerGroup) = 1
    /\ markerGroup[1] = 2
    /\ bounce # {}
    /\ userMarkers # <<>>

\* C17: a click on the i-th entry of the sidebar opens the popup of the
\* marker paired with the i-th record of the subset displayed now and
\* centres the view on that marker's coordinates at zoom 15; the displayed
\* subset, the list, the two filter values and the geolocation state stay
\* as they were.
C17_ListClickSelects ==
    [][\A i \in 1..Len(listItems) :
        ListClickAt(i) =>
            /\ i <= Len(markerGroup)
            /\ openPopup' = markerGroup[i]
            /\ view' = [kind |-> "center",
                        lat |-> markers[markerGroup[i]].loc.lat,
                        lng |-> markers[markerGroup[i]].loc.lng,
                        zoom |-> 15]
            /\ UNCHANGED <<markerGroup, listItems, searchValue, categoryValue>>
            /\ UNCHANGED <<btnDisabled, btnLabel, requests, userMarkers, timers>>
            /\ markers' = markers]_vars

\* the display is narrowed to the second record alone, its entry (the
\* first of the list) was clicked while a position request was pending
C17_Witness ==
    /\ Len(markers) = 2
    /\ Len(listItems) = 1
    /\ markerGroup = <<2>>
    /\ openPopup = 2
    /\ view.kind = "center"
    /\ view.zoom = 15
    /\ view.lat = markers[2].loc.lat
    /\ requests = 1

\* C18: after a successful load the options of the category selector are
\* exactly the categories of the loaded records, strictly ascending in the
\* order of their code units (so each appears once), and no step of any
\* handler changes them.
C18_CategoryOptionsSortedOnce ==
    /\ [](Ready =>
            /\ { categoryOptions[i] : i \in 1..Len(categoryOptions) }
                 = { markers[i].loc.category : i \in 1..Len(markers) }
            /\ \A i, j \in 1..Len(categoryOptions) :
                 i < j => StrLess(categoryOptions[i], categoryOptions[j]))
    /\ [][Ready => categoryOptions' = categoryOptions]_vars

\* the data gave "b" before "B"; the selector lists "B" first, and lists it
\* still after a category was chosen and a key moved the focus
C18_Witness ==
    /\ Ready
    /\ Len(markers) = 2
    /\ markers[1].loc.category = <<"b">>
    /\ markers[2].loc.category = <<"B">>
    /\ categoryOptions = << <<"B">>, <<"b">> >>
    /\ categoryValue = <<"b">>
    /\ focus = "search"

====
